---- MODULE Spec2Model ----
(***************************************************************************)
(* Model of grant-viewer-access.py: the granter's main(), its project      *)
(* enumerators, the ThreadPoolExecutor fan-out of grant_iam_permission     *)
(* tasks, the shared counters / error log with their locks, and the cloud  *)
(* side IAM policies the tasks read and write (specification Spec); and of *)
(* list-projects.py: the lister's main() with get_all_projects,            *)
(* filter_projects and the files it writes (specification SpecLister).     *)
(*                                                                         *)
(* Strings whose content the code inspects (file lines, project ids, the   *)
(* confirmation answer) are sequences of one-character strings.            *)
(***************************************************************************)
EXTENDS Integers, Sequences, FiniteSets, TLC

\* ------------------------------------------------------------------ bounds
MaxLines == 2       \* lines of the operator's project file
MaxPages == 2       \* result pages of projects().list()
MaxPool == 2        \* largest in-range --max-workers value tried

\* ------------------------------------------------------- program constants
MIN_WORKERS == 1
MAX_WORKERS == 1000
DEFAULT_ROLE == "roles/viewer"

\* ------------------------------------------------------------ environment
OtherRole == "roles/browser"
Member == "user:p"          \* the principal get_member_identifier resolved
OtherMember == "user:q"

IdA == <<"a">>
IdB == <<"b">>
IdC == <<"c">>
\* Projects that exist in the cloud and answer getIamPolicy / setIamPolicy.
CloudProjects == {IdA, IdB}

Range(s) == {s[k] : k \in 1..Len(s)}

\* ------------------------------------------------------------ str methods
Whitespace == {" ", "\t", "\n"}

RECURSIVE LStrip(_)
LStrip(s) ==
    IF s # <<>> /\ Head(s) \in Whitespace THEN LStrip(Tail(s)) ELSE s

RECURSIVE RStrip(_)
RStrip(s) ==
    IF s # <<>> /\ s[Len(s)] \in Whitespace
    THEN RStrip(SubSeq(s, 1, Len(s) - 1))
    ELSE s

\* str.strip()
Strip(s) == RStrip(LStrip(s))

LowerChar(c) ==
    CASE c = "Y" -> "y"
      [] c = "E" -> "e"
      [] c = "S" -> "s"
      [] c = "N" -> "n"
      [] c = "O" -> "o"
      [] c = "A" -> "a"
      [] c = "B" -> "b"
      [] c = "C" -> "c"
      [] OTHER -> c

\* str.lower()
Lower(s) == [k \in 1..Len(s) |-> LowerChar(s[k])]

\* Code point of a character, for the ordering sorted() uses.
Ord(c) ==
    CASE c = "\t" -> 9
      [] c = "\n" -> 10
      [] c = " " -> 32
      [] c = "#" -> 35
      [] c = "A" -> 65
      [] c = "B" -> 66
      [] c = "C" -> 67
      [] c = "a" -> 97
      [] c = "b" -> 98
      [] c = "c" -> 99
      [] OTHER -> 0

\* s < t for Python strings (lexicographic by code point).
RECURSIVE StrLess(_, _)
StrLess(s, t) ==
    IF t = <<>> THEN FALSE
    ELSE IF s = <<>> THEN TRUE
    ELSE IF Ord(Head(s)) < Ord(Head(t)) THEN TRUE
    ELSE IF Ord(Head(s)) > Ord(Head(t)) THEN FALSE
    ELSE StrLess(Tail(s), Tail(t))

\* Insert x into the sorted list l, after the elements not greater than it.
RECURSIVE Insert(_, _)
Insert(x, l) ==
    IF l = <<>> THEN <<x>>
    ELSE IF StrLess(x, Head(l)) THEN <<x>> \o l
    ELSE <<Head(l)>> \o Insert(x, Tail(l))

\* sorted(l): stable, ascending, duplicates kept.
RECURSIVE Sorted(_)
Sorted(l) ==
    IF l = <<>> THEN <<>>
    ELSE Insert(l[Len(l)], Sorted(SubSeq(l, 1, Len(l) - 1)))

\* ------------------------------------------------------------ enumerators
SeqsUpTo(S, n) == UNION {[1..k -> S] : k \in 0..n}

\* Lines as `for line in f` yields them (the newline included).
LineSet ==
    { <<"\n">>,
      <<" ", "\n">>,
      <<" ", "a", "\t", "\n">>,
      <<"#", "a", "\n">> }

FileInputs == SeqsUpTo(LineSet, MaxLines)

\* get_projects_from_file, the loop over the lines of an existing file.
RECURSIVE get_projects_from_file(_)
get_projects_from_file(lines) ==
    IF lines = <<>> THEN <<>>
    ELSE LET project_id == Strip(Head(lines))
         IN  (IF project_id # <<>> THEN <<project_id>> ELSE <<>>)
             \o get_projects_from_file(Tail(lines))

Proj(id, state) == [projectId |-> id, lifecycleState |-> state]

\* The 'projects' lists a result page may carry (<<>>: the key is absent).
PageProjects ==
    { <<>>,
      <<Proj(IdA, "ACTIVE")>>,
      <<Proj(IdB, "ACTIVE")>>,
      <<Proj(IdC, "DELETE_REQUESTED")>>,
      <<Proj(IdB, "ACTIVE"), Proj(IdA, "ACTIVE")>> }

PageSet == [projects : PageProjects, nextPageToken : BOOLEAN]

RECURSIVE ListedIds(_)
ListedIds(pages) ==
    IF pages = <<>> THEN <<>>
    ELSE [k \in 1..Len(Head(pages).projects) |-> Head(pages).projects[k].projectId]
         \o ListedIds(Tail(pages))

\* Listings the API can serve: project ids are globally unique, and the last
\* page carries no continuation token.
PageInputs ==
    { pages \in SeqsUpTo(PageSet, MaxPages) :
        /\ pages # <<>>
        /\ ~pages[Len(pages)].nextPageToken
        /\ \A j, k \in 1..Len(ListedIds(pages)) :
             ListedIds(pages)[j] = ListedIds(pages)[k] => j = k }

\* Number of requests the while loop executes: up to the first page without
\* a nextPageToken.
RECURSIVE PagesFetched(_)
PagesFetched(pages) ==
    IF pages = <<>> THEN 0
    ELSE IF Head(pages).nextPageToken THEN 1 + PagesFetched(Tail(pages))
    ELSE 1

RECURSIVE ActiveIds(_)
ActiveIds(projs) ==
    IF projs = <<>> THEN <<>>
    ELSE (IF Head(projs).lifecycleState = "ACTIVE"
          THEN <<Head(projs).projectId>> ELSE <<>>)
         \o ActiveIds(Tail(projs))

RECURSIVE CollectPages(_)
CollectPages(pages) ==
    IF pages = <<>> THEN <<>>
    ELSE ActiveIds(Head(pages).projects)
         \o (IF Head(pages).nextPageToken THEN CollectPages(Tail(pages)) ELSE <<>>)

\* get_all_projects when no request raises.
get_all_projects(pages) == Sorted(CollectPages(pages))

\* ------------------------------------------------------------ IAM policies
Binding(r, ms) == [role |-> r, members |-> ms]

\* Policies as getIamPolicy returns them: a role in at most one binding.
InitPolicies ==
    { <<>>,
      <<Binding(OtherRole, <<Member>>), Binding(DEFAULT_ROLE, <<OtherMember>>)>>,
      <<Binding(DEFAULT_ROLE, <<OtherMember, Member>>)>> }

\* Variant of HasRole that looks at the first binding only.
HasRoleFirstBindingOnly(pol, member, role) ==
    pol # <<>> /\ pol[1].role = role /\ member \in Range(pol[1].members)

\* check_permission's scan of the policy it read.
HasRole(pol, member, role) ==
    \E k \in 1..Len(pol) : pol[k].role = role /\ member \in Range(pol[k].members)

\* Index of the first binding for role, 0 if none (the for ... break loop).
FirstBinding(pol, role) ==
    IF \E k \in 1..Len(pol) : pol[k].role = role
    THEN CHOOSE k \in 1..Len(pol) :
            /\ pol[k].role = role
            /\ \A j \in 1..(k - 1) : pol[j].role # role
    ELSE 0

\* Variant of AddBinding without the "if member not in" test.
AddBindingNoMembershipTest(pol, member, role) ==
    IF FirstBinding(pol, role) # 0
    THEN [pol EXCEPT ![FirstBinding(pol, role)].members = Append(@, member)]
    ELSE Append(pol, Binding(role, <<member>>))

\* Variant of AddBinding that appends a new binding whatever the policy holds.
AddBindingAlwaysAppend(pol, member, role) ==
    Append(pol, Binding(role, <<member>>))

\* Variant of AddBinding that never extends an existing binding.
AddBindingNewOnly(pol, member, role) ==
    IF FirstBinding(pol, role) # 0 THEN pol
    ELSE Append(pol, Binding(role, <<member>>))

\* The "Add the binding" block of grant_iam_permission.
AddBinding(pol, member, role) ==
    LET k == FirstBinding(pol, role)
    IN  IF k # 0
        THEN IF member \notin Range(pol[k].members)
             THEN [pol EXCEPT ![k].members = Append(@, member)]
             ELSE pol
        ELSE Append(pol, Binding(role, <<member>>))

\* ------------------------------------------------------------------ state
VARIABLES
    args,                  \* the parsed command line
    mainpc,                \* position of the main thread
    exit_code,             \* -1 while the process runs
    response,              \* what input() returned at the confirmation prompt
    projects,              \* the list main() hands to process_projects_parallel
    submitted,             \* futures created by executor.submit so far
    collected,             \* futures as_completed has yielded
    completed,             \* the progress counter
    tpc,                   \* position of each grant_iam_permission task
    has_permission,        \* each task's local has_permission
    tpolicy,               \* each task's local policy (the re-read)
    reg,                   \* counter value a task loaded under counter_lock
    result,                \* status of the dict each task returned
    success_count,
    failure_count,
    already_granted_count,
    counter_lock,          \* 0: free, else the task holding it
    errors_log,
    errors_lock,           \* 0: free, else the task holding it
    policy,                \* cloud side: IAM policy of each existing project
    policy0,               \* the policies when the run started
    trace,                 \* API calls each task has issued, in order
    log_file,              \* grant-access-errors.log
    src_error              \* how reading the project source failed, if it did

\* list-projects.py
VARIABLES
    largs,                 \* the lister's parsed command line
    lpc,                   \* position of the lister's main()
    lexit,                 \* the lister's exit status, -1 while it runs
    listing,               \* the result pages projects().list() will serve
    all_projects,
    filtered_projects,
    excluded_projects,
    output_file,           \* args.output_file
    detailed_file          \* its -detailed companion

vars == << args, mainpc, exit_code, response, projects, submitted, collected,
           completed, tpc, has_permission, tpolicy, reg, result, success_count,
           failure_count, already_granted_count, counter_lock, errors_log,
           errors_lock, policy, policy0, trace, log_file, src_error,
           largs, lpc, lexit, listing, all_projects, filtered_projects,
           excluded_projects, output_file, detailed_file >>

listerVars == << largs, lpc, lexit, listing, all_projects, filtered_projects,
                 excluded_projects, output_file, detailed_file >>

mainVars == << mainpc, exit_code, response, projects, submitted, collected,
               completed, log_file >>
taskVars == << tpc, has_permission, tpolicy, reg, result, trace >>
sharedVars == << success_count, failure_count, already_granted_count,
                 counter_lock, errors_log, errors_lock >>

Tasks == DOMAIN tpc

ArgSets ==
    [ all_projects : BOOLEAN,
      dry_run : BOOLEAN,
      check_only : BOOLEAN,
      max_workers : {MIN_WORKERS - 1, MAX_WORKERS + 1} \cup (MIN_WORKERS..MaxPool) ]

Yes == <<"y", "e", "s">>

\* What the operator may type at the prompt.
Answers ==
    { Yes, <<"Y", "E", "S">>, <<"Y", "e", "s">>, <<"n", "o">>, <<"y">>, <<>>,
      <<" ", "y", "e", "s">> }

\* kind: "none", "list" (a projects().list() request raised) or "file" (the
\* project file is absent); partial: ids collected before the failure.
NoError == [kind |-> "none", partial |-> 0]

\* The cloud's policies when the run starts.  The project file can name only
\* project a among the existing ones, so b's policy varies in --all runs only.
StartPolicies(a) ==
    { f \in [CloudProjects -> InitPolicies] : a.all_projects \/ f[IdB] = <<>> }

\* ---------------------------------------------------------- list-projects
\* An optional field of an API record or of the command line: <<>> when it
\* is absent (None), <<v>> when it is there.
Absent == <<>>
Some(v) == <<v>>

ApiProject(id, state, name) ==
    [projectId |-> id, lifecycleState |-> state, name |-> name,
     projectNumber |-> Some("1")]

IdAB == <<"a", "B">>

\* The 'projects' lists a result page of the lister may carry.
ListerPageProjects ==
    { <<>>,
      <<ApiProject(IdAB, "ACTIVE", Some("n"))>>,
      <<ApiProject(IdC, "ACTIVE", Absent), ApiProject(IdA, "ACTIVE", Some("n"))>>,
      <<ApiProject(IdB, "DELETE_REQUESTED", Some("n"))>> }

ListerPageSet == [projects : ListerPageProjects, nextPageToken : BOOLEAN]

ListerPageInputs ==
    { pages \in SeqsUpTo(ListerPageSet, MaxPages) :
        /\ pages # <<>>
        /\ ~pages[Len(pages)].nextPageToken
        /\ \A j, k \in 1..Len(ListedIds(pages)) :
             ListedIds(pages)[j] = ListedIds(pages)[k] => j = k }

\* The dict the lister keeps for an active project.
Record(project) ==
    [id |-> project.projectId,
     name |-> IF project.name = Absent THEN "UNNAMED" ELSE project.name[1],
     number |-> IF project.projectNumber = Absent THEN "N/A"
                ELSE project.projectNumber[1]]

RECURSIVE ActiveRecords(_)
ActiveRecords(projs) ==
    IF projs = <<>> THEN <<>>
    ELSE (IF Head(projs).lifecycleState = "ACTIVE"
          THEN <<Record(Head(projs))>> ELSE <<>>)
         \o ActiveRecords(Tail(projs))

RECURSIVE CollectRecords(_)
CollectRecords(pages) ==
    IF pages = <<>> THEN <<>>
    ELSE ActiveRecords(Head(pages).projects)
         \o (IF Head(pages).nextPageToken THEN CollectRecords(Tail(pages)) ELSE <<>>)

RECURSIVE InsertById(_, _)
InsertById(x, l) ==
    IF l = <<>> THEN <<x>>
    ELSE IF StrLess(x.id, Head(l).id) THEN <<x>> \o l
    ELSE <<Head(l)>> \o InsertById(x, Tail(l))

\* sorted(projects, key=lambda p: p['id'])
RECURSIVE SortedById(_)
SortedById(l) ==
    IF l = <<>> THEN <<>>
    ELSE InsertById(l[Len(l)], SortedById(SubSeq(l, 1, Len(l) - 1)))

\* The regular expressions tried: literal characters and "|" alternation.
PatternTexts == { <<>>, <<"a">>, <<"b">>, <<"a", "|", "c">> }
Patterns == {Absent} \cup {Some(t) : t \in PatternTexts}

\* The alternatives of a pattern, split at each "|".
RECURSIVE Alternatives(_)
Alternatives(pattern) ==
    IF "|" \notin Range(pattern) THEN <<pattern>>
    ELSE LET k == CHOOSE j \in 1..Len(pattern) :
                     /\ pattern[j] = "|"
                     /\ \A h \in 1..(j - 1) : pattern[h] # "|"
         IN  <<SubSeq(pattern, 1, k - 1)>>
             \o Alternatives(SubSeq(pattern, k + 1, Len(pattern)))

\* t occurs in s as a contiguous piece (the empty t occurs everywhere).
Contains(s, t) ==
    \E k \in 0..(Len(s) - Len(t)) : SubSeq(s, k + 1, k + Len(t)) = t

\* re.search(pattern, string, re.IGNORECASE) is not None
Search(pattern, string) ==
    \E j \in 1..Len(Alternatives(pattern)) :
        Contains(Lower(string), Lower(Alternatives(pattern)[j]))

\* Python truthiness of an optional string: None and '' are false.
Truthy(opt) == opt # Absent /\ opt[1] # <<>>

\* Variant of filter_projects that tests the exclude pattern only when no
\* include pattern is given.
RECURSIVE filter_projects_include_first(_, _, _)
filter_projects_include_first(projs, include_pattern, exclude_pattern) ==
    IF projs = <<>> THEN [filtered |-> <<>>, excluded |-> <<>>]
    ELSE LET project == Head(projs)
             rest == filter_projects_include_first(Tail(projs), include_pattern,
                                                   exclude_pattern)
             drop == IF Truthy(include_pattern)
                     THEN ~Search(include_pattern[1], project.id)
                     ELSE /\ Truthy(exclude_pattern)
                          /\ Search(exclude_pattern[1], project.id)
         IN  IF drop
             THEN [filtered |-> rest.filtered,
                   excluded |-> <<project>> \o rest.excluded]
             ELSE [filtered |-> <<project>> \o rest.filtered,
                   excluded |-> rest.excluded]

\* Variant of filter_projects that forgets the projects the include pattern
\* drops.
RECURSIVE filter_projects_forgetful(_, _, _)
filter_projects_forgetful(projs, include_pattern, exclude_pattern) ==
    IF projs = <<>> THEN [filtered |-> <<>>, excluded |-> <<>>]
    ELSE LET project == Head(projs)
             rest == filter_projects_forgetful(Tail(projs), include_pattern,
                                               exclude_pattern)
         IN  IF /\ Truthy(exclude_pattern)
                /\ Search(exclude_pattern[1], project.id)
             THEN [filtered |-> rest.filtered,
                   excluded |-> <<project>> \o rest.excluded]
             ELSE IF /\ Truthy(include_pattern)
                     /\ ~Search(include_pattern[1], project.id)
             THEN rest
             ELSE [filtered |-> <<project>> \o rest.filtered,
                   excluded |-> rest.excluded]

\* filter_projects: the loop, one project at a time.
RECURSIVE filter_projects(_, _, _)
filter_projects(projs, include_pattern, exclude_pattern) ==
    IF projs = <<>> THEN [filtered |-> <<>>, excluded |-> <<>>]
    ELSE LET project == Head(projs)
             rest == filter_projects(Tail(projs), include_pattern, exclude_pattern)
             drop == \/ /\ Truthy(exclude_pattern)
                        /\ Search(exclude_pattern[1], project.id)
                     \/ /\ Truthy(include_pattern)
                        /\ ~Search(include_pattern[1], project.id)
         IN  IF drop
             THEN [filtered |-> rest.filtered,
                   excluded |-> <<project>> \o rest.excluded]
             ELSE [filtered |-> <<project>> \o rest.filtered,
                   excluded |-> rest.excluded]

ListerArgSets ==
    [ include_pattern : Patterns,
      exclude_pattern : Patterns,
      show_stats : BOOLEAN,
      preview_only : BOOLEAN ]

NotWritten == [written |-> FALSE, lines |-> <<>>]

\* The lister before it has done anything.
ListerStart ==
    /\ lexit = -1
    /\ all_projects = <<>>
    /\ filtered_projects = <<>>
    /\ excluded_projects = <<>>
    /\ output_file = NotWritten
    /\ detailed_file = NotWritten

\* The lister is not run.
ListerOff ==
    /\ lpc = "off"
    /\ largs = [include_pattern |-> Absent, exclude_pattern |-> Absent,
                show_stats |-> FALSE, preview_only |-> FALSE]
    /\ listing = <<>>
    /\ ListerStart

Init ==
    /\ args \in ArgSets
    /\ mainpc = "validate"
    /\ exit_code = -1
    /\ response = <<>>
    /\ projects = <<>>
    /\ submitted = 0
    /\ collected = {}
    /\ completed = 0
    /\ tpc = <<>>
    /\ has_permission = <<>>
    /\ tpolicy = <<>>
    /\ reg = <<>>
    /\ result = <<>>
    /\ success_count = 0
    /\ failure_count = 0
    /\ already_granted_count = 0
    /\ counter_lock = 0
    /\ errors_log = <<>>
    /\ errors_lock = 0
    /\ policy \in StartPolicies(args)
    /\ policy0 = policy
    /\ trace = <<>>
    /\ log_file = [written |-> FALSE, lines |-> <<>>]
    /\ src_error = NoError
    /\ ListerOff

\* ------------------------------------------------------------- main thread
Exit(code) ==
    /\ mainpc' = "exit"
    /\ exit_code' = code

\* if args.max_workers < 1 or args.max_workers > 1000: sys.exit(1)
ValidWorkers(n) == ~(n < MIN_WORKERS \/ n > MAX_WORKERS)

Validate ==
    /\ mainpc = "validate"
    /\ IF ValidWorkers(args.max_workers)
       THEN mainpc' = "auth" /\ exit_code' = exit_code
       ELSE Exit(1)
    /\ UNCHANGED << args, response, projects, submitted, collected, completed,
                    log_file, taskVars, sharedVars, policy, policy0, src_error, listerVars >>

\* google.auth.default() at import time.
Auth ==
    /\ mainpc = "auth"
    /\ \E ok \in BOOLEAN :
         IF ok THEN mainpc' = "member" /\ exit_code' = exit_code ELSE Exit(1)
    /\ UNCHANGED << args, response, projects, submitted, collected, completed,
                    log_file, taskVars, sharedVars, policy, policy0, src_error, listerVars >>

\* member = get_member_identifier()
ResolveMember ==
    /\ mainpc = "member"
    /\ \E ok \in BOOLEAN :
         IF ok THEN mainpc' = "enumerate" /\ exit_code' = exit_code ELSE Exit(1)
    /\ UNCHANGED << args, response, projects, submitted, collected, completed,
                    log_file, taskVars, sharedVars, policy, policy0, src_error, listerVars >>

\* The project list is in hand: "if not projects: sys.exit(1)", else go on
\* to the confirmation with one task slot per list entry.
GotProjects(list) ==
    /\ projects' = list
    /\ IF list = <<>>
       THEN /\ Exit(1)
            /\ UNCHANGED taskVars
       ELSE /\ mainpc' = "confirm"
            /\ exit_code' = exit_code
            /\ tpc' = [i \in 1..Len(list) |-> "new"]
            /\ has_permission' = [i \in 1..Len(list) |-> "unset"]
            /\ tpolicy' = [i \in 1..Len(list) |-> <<>>]
            /\ reg' = [i \in 1..Len(list) |-> 0]
            /\ result' = [i \in 1..Len(list) |-> "none"]
            /\ trace' = [i \in 1..Len(list) |-> <<>>]

\* The request for page errAt raises (errAt = 0, or a page the loop never
\* asks for: no request raises).
ListingFails(pages, errAt) == errAt \in 1..PagesFetched(pages)

\* Variant of ListAll: a failed request ends the loop and the projects
\* collected so far are returned.
ListAllPartial(pages, errAt) ==
    [ fatal |-> FALSE,
      projects |-> IF ListingFails(pages, errAt)
                   THEN Sorted(CollectPages(SubSeq(pages, 1, errAt - 1)))
                   ELSE get_all_projects(pages) ]

\* get_all_projects with its except clause: sys.exit(1) when a request
\* raises, whatever was collected before; else the sorted list.
ListAll(pages, errAt) ==
    IF ListingFails(pages, errAt)
    THEN [fatal |-> TRUE, projects |-> <<>>]
    ELSE [fatal |-> FALSE, projects |-> get_all_projects(pages)]

\* get_projects_from_file with its except clause: sys.exit(1) on
\* FileNotFoundError.
ReadFile(exists, lines) ==
    IF ~exists
    THEN [fatal |-> TRUE, projects |-> <<>>]
    ELSE [fatal |-> FALSE, projects |-> get_projects_from_file(lines)]

\* main() goes on with what the enumerator returned, unless it exited.
Enumerated(r) ==
    IF r.fatal
    THEN /\ Exit(1)
         /\ UNCHANGED << projects, taskVars >>
    ELSE GotProjects(r.projects)

\* projects = get_all_projects()
EnumerateAll ==
    /\ mainpc = "enumerate"
    /\ args.all_projects
    /\ \E pages \in PageInputs, errAt \in 0..MaxPages :
         /\ src_error' = IF ListingFails(pages, errAt)
                         THEN [kind |-> "list",
                               partial |-> Len(CollectPages(SubSeq(pages, 1, errAt - 1)))]
                         ELSE NoError
         /\ Enumerated(ListAll(pages, errAt))
    /\ UNCHANGED << args, response, submitted, collected, completed, log_file,
                    sharedVars, policy, policy0, listerVars >>

\* projects = get_projects_from_file(args.projects_file)
EnumerateFile ==
    /\ mainpc = "enumerate"
    /\ ~args.all_projects
    /\ \E exists \in BOOLEAN, lines \in FileInputs :
         /\ src_error' = IF exists THEN NoError ELSE [kind |-> "file", partial |-> 0]
         /\ Enumerated(ReadFile(exists, lines))
    /\ UNCHANGED << args, response, submitted, collected, completed, log_file,
                    sharedVars, policy, policy0, listerVars >>

\* Variant of ShortCircuit that forgets --check-only.
ShortCircuitDryRunOnly(a) == a.dry_run

\* if args.dry_run or args.check_only (grant_iam_permission's short-circuit)
ShortCircuit(a) == a.dry_run \/ a.check_only

\* if not args.dry_run and not args.check_only (main's confirmation gate)
NeedsConfirm(a) == ~a.dry_run /\ ~a.check_only

\* Variant of Accepted that takes any answer starting with y.
AcceptedPrefix(r) == r # <<>> /\ LowerChar(Head(r)) = "y"

\* response.lower() != 'yes' is false
Accepted(r) == Lower(r) = Yes

ConfirmSkip ==
    /\ mainpc = "confirm"
    /\ ~NeedsConfirm(args)
    /\ mainpc' = "submit"
    /\ UNCHANGED << args, exit_code, response, projects, submitted, collected,
                    completed, log_file, taskVars, sharedVars, policy, policy0, src_error, listerVars >>

ConfirmAsk ==
    /\ mainpc = "confirm"
    /\ NeedsConfirm(args)
    /\ \E r \in Answers :
         /\ response' = r
         /\ IF Accepted(r)
            THEN mainpc' = "submit" /\ exit_code' = exit_code
            ELSE Exit(0)
    /\ UNCHANGED << args, projects, submitted, collected, completed, log_file,
                    taskVars, sharedVars, policy, policy0, src_error, listerVars >>

\* for project_id in projects: executor.submit(grant_iam_permission, ...)
Submit ==
    /\ mainpc = "submit"
    /\ submitted < Len(projects)
    /\ submitted' = submitted + 1
    /\ tpc' = [tpc EXCEPT ![submitted + 1] = "queued"]
    /\ mainpc' = IF submitted + 1 = Len(projects) THEN "collect" ELSE "submit"
    /\ UNCHANGED << args, exit_code, response, projects, collected, completed,
                    log_file, has_permission, tpolicy, reg, result, trace,
                    sharedVars, policy, policy0, src_error, listerVars >>

\* Variant of Completed: futures handed out as soon as they are submitted.
CompletedOnSubmit(i) == tpc[i] # "new"

\* as_completed yields a future once its task has returned or raised.
Completed(i) == tpc[i] = "done"

\* One iteration of "for future in as_completed(futures)": future.result()
\* re-raises what the task raised; otherwise completed += 1 under
\* progress_lock, a lock only this thread takes.
Collect(i) ==
    /\ mainpc = "collect"
    /\ Completed(i)
    /\ i \notin collected
    /\ collected' = collected \cup {i}
    /\ IF result[i] = "raised"
       THEN /\ Exit(1)
            /\ UNCHANGED completed
       ELSE /\ completed' = completed + 1
            /\ exit_code' = exit_code
            /\ mainpc' = IF collected' = Tasks THEN "summary" ELSE "collect"
    /\ UNCHANGED << args, response, projects, submitted, log_file, taskVars,
                    sharedVars, policy, policy0, src_error, listerVars >>

\* The summary, the error log file, and the normal return of main().
Summarize ==
    /\ mainpc = "summary"
    /\ log_file' = IF errors_log # <<>>
                   THEN [written |-> TRUE, lines |-> errors_log]
                   ELSE log_file
    /\ Exit(0)
    /\ UNCHANGED << args, response, projects, submitted, collected, completed,
                    taskVars, sharedVars, policy, policy0, src_error, listerVars >>

\* ------------------------------------------------------------ worker tasks
Running == {i \in Tasks : tpc[i] \notin {"new", "queued", "done"}}

\* Variant of CanStart: a pool that starts every queued item at once.
CanStartUnbounded(i) ==
    /\ tpc[i] = "queued"
    /\ \A j \in Tasks : tpc[j] = "queued" => i <= j

\* A pool thread is free to take the oldest queued work item.
CanStart(i) ==
    /\ tpc[i] = "queued"
    /\ \A j \in Tasks : tpc[j] = "queued" => i <= j
    /\ Cardinality(Running) < args.max_workers

\* The API answers for a project that exists; any call may still fail.
CallOutcomes(p) == IF p \in CloudProjects THEN {"ok", "HttpError"} ELSE {"HttpError"}

\* Variant of ExceptException: a handler that matches no API error.
ExceptNothing(exc) == FALSE

\* "except Exception" (check_permission line 257, grant_iam_permission line 327)
ExceptException(exc) == exc \in {"HttpError"}

\* Variant of CanAcquire: a lock that excludes nobody.
CanAcquireAlways(lock) == TRUE

\* with lock: the lock can be taken when no thread holds it.
CanAcquire(lock) == lock = 0

\* Variant of Release: the lock stays with its holder.
KeepHeld(holder) == holder

\* Leaving the with block.
Release(holder) == 0

\* Variant of AfterCheck that grants whatever the check returned.
AfterCheckAlwaysGrant(hp, a) ==
    IF ShortCircuit(a) THEN "would_grant" ELSE "reread"

\* Where grant_iam_permission goes once check_permission has returned.
AfterCheck(hp, a) ==
    IF hp = "True" THEN "inc_already"
    ELSE IF ShortCircuit(a) THEN "would_grant"
    ELSE "reread"

\* The task moves on from the check with has_permission = hp.
Proceed(i, hp) ==
    LET next == AfterCheck(hp, args)
    IN  /\ has_permission' = [has_permission EXCEPT ![i] = hp]
        /\ IF next = "would_grant"
           THEN /\ tpc' = [tpc EXCEPT ![i] = "done"]
                /\ result' = [result EXCEPT ![i] = "would_grant"]
           ELSE /\ tpc' = [tpc EXCEPT ![i] = next]
                /\ UNCHANGED result

\* The task ends with an exception no handler caught.
Raise(i) ==
    /\ tpc' = [tpc EXCEPT ![i] = "done"]
    /\ result' = [result EXCEPT ![i] = "raised"]

TaskStart(i) ==
    /\ CanStart(i)
    /\ tpc' = [tpc EXCEPT ![i] = "check"]
    /\ UNCHANGED << args, mainVars, has_permission, tpolicy, reg, result, trace,
                    sharedVars, policy, policy0, src_error, listerVars >>

\* check_permission: the getIamPolicy read and the scan of its bindings.
CheckCall(i) ==
    /\ tpc[i] = "check"
    /\ \E out \in CallOutcomes(projects[i]) :
         IF out = "ok"
         THEN /\ trace' = [trace EXCEPT ![i] = Append(@, "check")]
              /\ Proceed(i, IF HasRole(policy[projects[i]], Member, DEFAULT_ROLE)
                            THEN "True" ELSE "False")
         ELSE /\ trace' = [trace EXCEPT ![i] = Append(@, "check_err")]
              /\ IF ExceptException(out)
                 THEN /\ tpc' = [tpc EXCEPT ![i] = "log_check"]
                      /\ UNCHANGED << has_permission, result >>
                 ELSE /\ Raise(i)
                      /\ UNCHANGED has_permission
    /\ UNCHANGED << args, mainVars, tpolicy, reg, sharedVars, policy, policy0, src_error, listerVars >>

\* log_error: with errors_lock
LogAcquire(i) ==
    /\ tpc[i] \in {"log_check", "log_fail"}
    /\ CanAcquire(errors_lock)
    /\ errors_lock' = i
    /\ tpc' = [tpc EXCEPT ![i] = IF tpc[i] = "log_check" THEN "app_check" ELSE "app_fail"]
    /\ UNCHANGED << args, mainVars, has_permission, tpolicy, reg, result, trace,
                    success_count, failure_count, already_granted_count,
                    counter_lock, errors_log, policy, policy0, src_error, listerVars >>

\* log_error: errors_log.append(message), the lock released; then either
\* check_permission returns None or grant_iam_permission returns 'failed'.
LogAppend(i) ==
    /\ tpc[i] \in {"app_check", "app_fail"}
    /\ errors_log' = Append(errors_log,
                            [project |-> projects[i],
                             what |-> IF tpc[i] = "app_check" THEN "check" ELSE "grant"])
    /\ errors_lock' = Release(i)
    /\ IF tpc[i] = "app_check"
       THEN Proceed(i, "None")
       ELSE /\ tpc' = [tpc EXCEPT ![i] = "done"]
            /\ result' = [result EXCEPT ![i] = "failed"]
            /\ UNCHANGED has_permission
    /\ UNCHANGED << args, mainVars, tpolicy, reg, trace, success_count,
                    failure_count, already_granted_count, counter_lock, policy,
                    policy0, src_error, listerVars >>

\* Variant of Failed that tries the grant again after an exception.
FailedRetry(i, exc) ==
    IF ExceptException(exc)
    THEN /\ tpc' = [tpc EXCEPT ![i] = "reread"]
         /\ UNCHANGED result
    ELSE Raise(i)

\* An exception raised inside the try block of grant_iam_permission.
Failed(i, exc) ==
    IF ExceptException(exc)
    THEN /\ tpc' = [tpc EXCEPT ![i] = "inc_failure"]
         /\ UNCHANGED result
    ELSE Raise(i)

\* policy = client.projects().getIamPolicy(...).execute()
RereadCall(i) ==
    /\ tpc[i] = "reread"
    /\ \E out \in CallOutcomes(projects[i]) :
         IF out = "ok"
         THEN /\ trace' = [trace EXCEPT ![i] = Append(@, "read")]
              /\ tpolicy' = [tpolicy EXCEPT ![i] = policy[projects[i]]]
              /\ tpc' = [tpc EXCEPT ![i] = "write"]
              /\ UNCHANGED result
         ELSE /\ trace' = [trace EXCEPT ![i] = Append(@, "read_err")]
              /\ Failed(i, out)
              /\ UNCHANGED tpolicy
    /\ UNCHANGED << args, mainVars, has_permission, reg, sharedVars, policy,
                    policy0, src_error, listerVars >>

\* The binding is merged into the local policy, then setIamPolicy writes it.
WriteCall(i) ==
    /\ tpc[i] = "write"
    /\ \E out \in CallOutcomes(projects[i]) :
         IF out = "ok"
         THEN /\ trace' = [trace EXCEPT ![i] = Append(@, "write")]
              /\ policy' = [policy EXCEPT ![projects[i]] =
                               AddBinding(tpolicy[i], Member, DEFAULT_ROLE)]
              /\ tpc' = [tpc EXCEPT ![i] = "inc_success"]
              /\ UNCHANGED result
         ELSE /\ trace' = [trace EXCEPT ![i] = Append(@, "write_err")]
              /\ Failed(i, out)
              /\ UNCHANGED policy
    /\ UNCHANGED << args, mainVars, has_permission, tpolicy, reg, sharedVars,
                    policy0, src_error, listerVars >>

\* Before "with counter_lock", and inside it with the counter loaded.
IncPcs == {"inc_already", "inc_success", "inc_failure"}
StorePcs == {"st_already", "st_success", "st_failure"}

Counter(pc) ==
    CASE pc = "inc_already" -> already_granted_count
      [] pc = "inc_success" -> success_count
      [] pc = "inc_failure" -> failure_count

Locked(pc) ==
    CASE pc = "inc_already" -> "st_already"
      [] pc = "inc_success" -> "st_success"
      [] pc = "inc_failure" -> "st_failure"

\* with counter_lock: entered, and the counter loaded for "+= 1".
CounterAcquire(i) ==
    /\ tpc[i] \in IncPcs
    /\ CanAcquire(counter_lock)
    /\ counter_lock' = i
    /\ reg' = [reg EXCEPT ![i] = Counter(tpc[i])]
    /\ tpc' = [tpc EXCEPT ![i] = Locked(tpc[i])]
    /\ UNCHANGED << args, mainVars, has_permission, tpolicy, result, trace,
                    success_count, failure_count, already_granted_count,
                    errors_log, errors_lock, policy, policy0, src_error, listerVars >>

\* The incremented value stored, the lock released, and what follows:
\* the return of 'already_granted' / 'granted', or log_error on failure.
CounterStore(i) ==
    /\ tpc[i] \in StorePcs
    /\ counter_lock' = Release(i)
    /\ reg' = [reg EXCEPT ![i] = 0]
    /\ already_granted_count' =
          IF tpc[i] = "st_already" THEN reg[i] + 1 ELSE already_granted_count
    /\ success_count' = IF tpc[i] = "st_success" THEN reg[i] + 1 ELSE success_count
    /\ failure_count' = IF tpc[i] = "st_failure" THEN reg[i] + 1 ELSE failure_count
    /\ IF tpc[i] = "st_failure"
       THEN /\ tpc' = [tpc EXCEPT ![i] = "log_fail"]
            /\ UNCHANGED result
       ELSE /\ tpc' = [tpc EXCEPT ![i] = "done"]
            /\ result' = [result EXCEPT ![i] =
                             IF tpc[i] = "st_already" THEN "already_granted"
                             ELSE "granted"]
    /\ UNCHANGED << args, mainVars, has_permission, tpolicy, trace, errors_log,
                    errors_lock, policy, policy0, src_error, listerVars >>

\* ---------------------------------------------------------- specification
\* The steps of the main thread, and of the pool thread running task i.
MainStep ==
    \/ Validate
    \/ Auth
    \/ ResolveMember
    \/ EnumerateAll
    \/ EnumerateFile
    \/ ConfirmSkip
    \/ ConfirmAsk
    \/ Submit
    \/ \E i \in Tasks : Collect(i)
    \/ Summarize

TaskStep(i) ==
    \/ TaskStart(i)
    \/ CheckCall(i)
    \/ LogAcquire(i)
    \/ LogAppend(i)
    \/ RereadCall(i)
    \/ WriteCall(i)
    \/ CounterAcquire(i)
    \/ CounterStore(i)

Next ==
    \/ Validate
    \/ Auth
    \/ ResolveMember
    \/ EnumerateAll
    \/ EnumerateFile
    \/ ConfirmSkip
    \/ ConfirmAsk
    \/ Submit
    \/ \E i \in Tasks : Collect(i)
    \/ Summarize
    \/ \E i \in Tasks : TaskStart(i)
    \/ \E i \in Tasks : CheckCall(i)
    \/ \E i \in Tasks : LogAcquire(i)
    \/ \E i \in Tasks : LogAppend(i)
    \/ \E i \in Tasks : RereadCall(i)
    \/ \E i \in Tasks : WriteCall(i)
    \/ \E i \in Tasks : CounterAcquire(i)
    \/ \E i \in Tasks : CounterStore(i)

Spec == Init /\ [][Next]_vars

\* Tasks there can be: one per line of the file, or per active project listed.
TaskIds == 1..(IF MaxLines > Cardinality(CloudProjects)
               THEN MaxLines ELSE Cardinality(CloudProjects))

\* The scheduler runs every thread that can take a step, and every network
\* call returns or raises.
FairSpec ==
    /\ Spec
    /\ WF_vars(MainStep)
    /\ \A i \in TaskIds : WF_vars(i \in Tasks /\ TaskStep(i))

\* ------------------------------------------------- list-projects, main()
\* The granter is not run.
GranterOff ==
    /\ args = [all_projects |-> FALSE, dry_run |-> FALSE, check_only |-> FALSE,
               max_workers |-> MIN_WORKERS]
    /\ mainpc = "off"
    /\ exit_code = -1
    /\ response = <<>>
    /\ projects = <<>>
    /\ submitted = 0
    /\ collected = {}
    /\ completed = 0
    /\ tpc = <<>>
    /\ has_permission = <<>>
    /\ tpolicy = <<>>
    /\ reg = <<>>
    /\ result = <<>>
    /\ success_count = 0
    /\ failure_count = 0
    /\ already_granted_count = 0
    /\ counter_lock = 0
    /\ errors_log = <<>>
    /\ errors_lock = 0
    /\ policy = [p \in CloudProjects |-> <<>>]
    /\ policy0 = policy
    /\ trace = <<>>
    /\ log_file = [written |-> FALSE, lines |-> <<>>]
    /\ src_error = NoError

ListerInit ==
    /\ GranterOff
    /\ lpc = "get_all"
    /\ largs \in ListerArgSets
    /\ listing \in ListerPageInputs
    /\ ListerStart

ListerExit(code) ==
    /\ lpc' = "exit"
    /\ lexit' = code

\* all_projects = get_all_projects(): the credentials or a list request may
\* raise, and both handlers exit with status 1.
GetAllProjects ==
    /\ lpc = "get_all"
    /\ \/ /\ ListerExit(1)
          /\ UNCHANGED all_projects
       \/ /\ all_projects' = SortedById(CollectRecords(listing))
          /\ lpc' = "filter"
          /\ UNCHANGED lexit
    /\ UNCHANGED << largs, listing, filtered_projects, excluded_projects,
                    output_file, detailed_file, args, mainVars, taskVars,
                    sharedVars, policy, policy0, src_error >>

\* filtered_projects, excluded_projects = filter_projects(all_projects, ...)
FilterProjects ==
    /\ lpc = "filter"
    /\ LET r == filter_projects(all_projects, largs.include_pattern,
                                largs.exclude_pattern)
       IN  /\ filtered_projects' = r.filtered
           /\ excluded_projects' = r.excluded
    /\ lpc' = "stats"
    /\ UNCHANGED << largs, lexit, listing, all_projects, output_file,
                    detailed_file, args, mainVars, taskVars, sharedVars,
                    policy, policy0, src_error >>

\* if args.show_stats: show_statistics(...), whose Reduction line divides by
\* len(all_projects): with no project the ZeroDivisionError ends the run.
ShowStatistics ==
    /\ lpc = "stats"
    /\ IF largs.show_stats /\ Len(all_projects) = 0
       THEN ListerExit(1)
       ELSE lpc' = "output" /\ UNCHANGED lexit
    /\ UNCHANGED << largs, listing, all_projects, filtered_projects,
                    excluded_projects, output_file, detailed_file, args,
                    mainVars, taskVars, sharedVars, policy, policy0, src_error >>

IdLines(projs) == [k \in 1..Len(projs) |-> projs[k].id]

DetailedLines(projs) ==
    <<"PROJECT_ID,PROJECT_NAME,PROJECT_NUMBER">>
    \o [k \in 1..Len(projs) |-> <<projs[k].id, projs[k].name, projs[k].number>>]

\* Preview mode returns without writing; otherwise the two files are
\* written, and an exception from either open/write exits with status 1.
Output ==
    /\ lpc = "output"
    /\ IF largs.preview_only
       THEN /\ ListerExit(0)
            /\ UNCHANGED << output_file, detailed_file >>
       ELSE \/ /\ ListerExit(1)
               /\ UNCHANGED << output_file, detailed_file >>
            \/ /\ ListerExit(1)
               /\ output_file' = [written |-> TRUE,
                                   lines |-> IdLines(filtered_projects)]
               /\ UNCHANGED detailed_file
            \/ /\ ListerExit(0)
               /\ output_file' = [written |-> TRUE,
                                   lines |-> IdLines(filtered_projects)]
               /\ detailed_file' = [written |-> TRUE,
                                     lines |-> DetailedLines(filtered_projects)]
    /\ UNCHANGED << largs, listing, all_projects, filtered_projects,
                    excluded_projects, args, mainVars, taskVars, sharedVars,
                    policy, policy0, src_error >>

ListerNext ==
    \/ GetAllProjects
    \/ FilterProjects
    \/ ShowStatistics
    \/ Output

SpecLister == ListerInit /\ [][ListerNext]_vars

\* ------------------------------------------------------------------ claims
Statuses == {"granted", "already_granted", "would_grant", "failed"}

NormalMode == ~args.dry_run /\ ~args.check_only

\* Task i issued a call of one of the kinds in evs.
Issued(i, evs) == \E k \in 1..Len(trace[i]) : trace[i][k] \in evs

\* No API call of task i has failed.
Clean(i) == ~Issued(i, {"check_err", "read_err", "write_err"})

\* Occurrences of Member in the bindings of pol for DEFAULT_ROLE.
MemberCount(pol) ==
    Cardinality(UNION { { <<k, m>> : m \in { n \in 1..Len(pol[k].members) :
                                                 /\ pol[k].role = DEFAULT_ROLE
                                                 /\ pol[k].members[n] = Member } } :
                        k \in 1..Len(pol) })

RoleBindings(pol) == Cardinality({k \in 1..Len(pol) : pol[k].role = DEFAULT_ROLE})

\* C1: a task whose check call errored ends 'failed' and issues neither the
\* second policy read nor the setIamPolicy write.
C1_FailedCheckSkipsGrant ==
    \A i \in Tasks :
        Issued(i, {"check_err"}) =>
            /\ result[i] \in {"none", "failed"}
            /\ ~Issued(i, {"read", "read_err", "write", "write_err"})

\* C2: with --dry-run or --check-only no setIamPolicy call is issued, no task
\* returns 'granted', success_count stays 0 and no policy changes.
C2_NoWriteInDryRun ==
    (args.dry_run \/ args.check_only) =>
        /\ \A i \in Tasks :
              /\ result[i] # "granted"
              /\ ~Issued(i, {"write", "write_err"})
        /\ success_count = 0
        /\ policy = policy0

\* C2 witness: a check-only run ended with a task that would grant after its
\* check call had failed, and another task that found the role in place.
C2_Witness ==
    /\ args.check_only
    /\ mainpc = "exit"
    /\ exit_code = 0
    /\ \E i \in Tasks : result[i] = "would_grant" /\ has_permission[i] = "None"
    /\ \E i \in Tasks : result[i] = "already_granted"

\* C3 as stated: outside dry-run / check-only, tasks are submitted and calls
\* issued only after the answer "yes", and any other answer ends the run with
\* no write.
C3_OnlyLiteralYes ==
    NormalMode =>
        /\ (submitted > 0 \/ \E i \in Tasks : trace[i] # <<>>) => response = Yes
        /\ (mainpc = "exit" /\ response # Yes) =>
              \A i \in Tasks : ~Issued(i, {"write", "write_err"})

\* C3 amended: outside dry-run / check-only, tasks are submitted and calls
\* issued only after an answer that reads "yes" once lower-cased; any other
\* answer ends the run with no task submitted, no write and no policy changed.
C3_ConfirmedBeforeWrites ==
    NormalMode =>
        /\ (submitted > 0 \/ \E i \in Tasks : trace[i] # <<>>) => Lower(response) = Yes
        /\ (mainpc = "exit" /\ projects # <<>> /\ Lower(response) # Yes) =>
              /\ submitted = 0
              /\ \A i \in Tasks : ~Issued(i, {"write", "write_err"})
              /\ policy = policy0

\* C3 witness: the operator typed "YES" and a write was issued.
C3_Witness ==
    /\ NormalMode
    /\ response = <<"Y", "E", "S">>
    /\ \E i \in Tasks : Issued(i, {"write"})

\* The grant operation ran for project entry i and then again for entry j:
\* one worker, i the first task of that project, j a later one, no API
\* error in either, and the principal did not hold the role at the start.
RanTwice(i, j) ==
    /\ NormalMode
    /\ args.max_workers = 1
    /\ i < j
    /\ projects[i] = projects[j]
    /\ \A k \in 1..(i - 1) : projects[k] # projects[i]
    /\ projects[i] \in CloudProjects
    /\ MemberCount(policy0[projects[i]]) = 0
    /\ Clean(i)
    /\ Clean(j)
    /\ tpc[j] = "done"

\* C4: run twice in sequence, the grant yields 'granted' then
\* 'already_granted', the second run issues only its check read, and the
\* policy ends with one binding for the role holding the principal once.
C4_Idempotent ==
    \A i, j \in Tasks :
        RanTwice(i, j) =>
            /\ result[i] = "granted"
            /\ result[j] = "already_granted"
            /\ trace[j] = <<"check">>
            /\ RoleBindings(policy[projects[i]]) = 1
            /\ MemberCount(policy[projects[i]]) = 1

\* C4 witness: two such runs on a project whose policy already had a binding
\* for the role without the principal.
C4_Witness ==
    \E i, j \in Tasks :
        /\ RanTwice(i, j)
        /\ RoleBindings(policy0[projects[i]]) = 1
        /\ result[j] = "already_granted"

\* The executor has been left: every future was collected or the collecting
\* loop was abandoned.
AfterRun == mainpc = "summary" \/ (mainpc = "exit" /\ submitted > 0)

\* C5: after a full run every input entry has one result with one of the
\* four statuses, and the four status counts add up to the number of entries.
C5_OneResultPerProject ==
    AfterRun =>
        /\ completed = Len(projects)
        /\ collected = Tasks
        /\ \A i \in Tasks : result[i] \in Statuses
        /\ Cardinality({i \in Tasks : result[i] = "granted"})
           + Cardinality({i \in Tasks : result[i] = "already_granted"})
           + Cardinality({i \in Tasks : result[i] = "would_grant"})
           + Cardinality({i \in Tasks : result[i] = "failed"}) = Len(projects)

\* C5 witness: a finished run with a failed and a granted entry.
C5_Witness ==
    /\ mainpc = "exit"
    /\ exit_code = 0
    /\ \E i, j \in Tasks : result[i] = "failed" /\ result[j] = "granted"

\* C6: in a normal run over distinct projects, a task whose own calls all
\* succeeded on a project lacking the role ends 'granted' with the policy
\* updated, whatever failed in other tasks.
C6_FailureIsolation ==
    \A i \in Tasks :
        ( /\ NormalMode
          /\ tpc[i] = "done"
          /\ Clean(i)
          /\ \A j \in Tasks : j # i => projects[j] # projects[i]
          /\ MemberCount(policy0[projects[i]]) = 0 )
        => /\ result[i] = "granted"
           /\ MemberCount(policy[projects[i]]) = 1

\* C6 witness: a finished normal run of two distinct projects, one failed
\* at its write, the other granted.
C6_Witness ==
    /\ NormalMode
    /\ mainpc = "exit"
    /\ \E i, j \in Tasks :
          /\ projects[i] # projects[j]
          /\ Issued(i, {"write_err"})
          /\ result[i] = "failed"
          /\ Clean(j)
          /\ result[j] = "granted"

\* C7: once submission has begun, the run reaches the point where every
\* task has a result and completed equals the number of input projects.
C7_Terminates ==
    (mainpc = "submit") ~>
        ( /\ mainpc = "exit"
          /\ exit_code = 0
          /\ completed = Len(projects)
          /\ \A i \in Tasks : tpc[i] = "done" /\ result[i] # "none" )

\* C7 witness: the collecting loop finished with every task failed.
C7_Witness ==
    /\ mainpc = "summary"
    /\ completed = Len(projects)
    /\ Len(projects) >= 2
    /\ args.max_workers = 1
    /\ \A i \in Tasks : result[i] = "failed"

\* C8: the run exits non-zero when it stops before processing (fatal setup
\* error or declined confirmation) and zero once it has passed confirmation.
C8_ExitStatus ==
    mainpc = "exit" =>
        /\ submitted = 0 => exit_code # 0
        /\ submitted > 0 => exit_code = 0

\* C9: the list handed to process_projects_parallel names no project twice.
C9_NoProjectTwice ==
    \A i, j \in 1..Len(projects) : projects[i] = projects[j] => i = j

\* C10: the enumerated list is strictly ascending (sorted, no duplicates).
C10_SortedDeduplicated ==
    \A i, j \in 1..Len(projects) : i < j => StrLess(projects[i], projects[j])

\* C11: when a listing request raised (even after projects were collected)
\* or the project file is absent, the run has exited non-zero with an empty
\* project list, no prompt answered, no task created or submitted, no API
\* call issued and no policy changed.
C11_NoPartialProjectSet ==
    src_error.kind # "none" =>
        /\ mainpc = "exit"
        /\ exit_code > 0
        /\ projects = <<>>
        /\ response = <<>>
        /\ Tasks = {}
        /\ submitted = 0
        /\ policy = policy0

\* C11 witness: the listing failed on a page after projects were collected.
C11_Witness ==
    /\ src_error.kind = "list"
    /\ src_error.partial > 0
    /\ mainpc = "exit"

\* log_error calls made so far: one per failed check call that was logged
\* and one per task that returned 'failed'.
ErrorsLogged ==
    Cardinality({i \in Tasks : has_permission[i] = "None"})
    + Cardinality({i \in Tasks : result[i] = "failed"})

\* C12: at the end of a run each counter equals the number of tasks with
\* that outcome, and errors_log holds one entry per log_error call; the two
\* locks never stay held.
C12_NoLostUpdates ==
    AfterRun =>
        /\ success_count = Cardinality({i \in Tasks : result[i] = "granted"})
        /\ already_granted_count =
              Cardinality({i \in Tasks : result[i] = "already_granted"})
        /\ failure_count = Cardinality({i \in Tasks : result[i] = "failed"})
        /\ Len(errors_log) = ErrorsLogged
        /\ counter_lock = 0
        /\ errors_lock = 0

\* C12 witness: a finished run in which two tasks ran at once and both
\* incremented the same counter.
C12_Witness ==
    /\ mainpc = "exit"
    /\ args.max_workers >= 2
    /\ success_count >= 2

\* errors_log has an entry naming the project of task i.
Logged(i) == \E k \in 1..Len(errors_log) : errors_log[k].project = projects[i]

\* C13: at the end of a run, a task one of whose API calls failed has an
\* error-log entry and the result 'failed', failure_count counts exactly
\* those tasks, and a project is in the error log iff a task for it failed.
C13_ErrorRecordedAndCounted ==
    AfterRun =>
        /\ \A i \in Tasks :
              ~Clean(i) => Logged(i) /\ result[i] = "failed"
        /\ failure_count = Cardinality({i \in Tasks : ~Clean(i)})
        /\ \A i \in Tasks :
              Logged(i) <=> \E j \in Tasks : /\ projects[j] = projects[i]
                                             /\ result[j] = "failed"

\* C14: at most max_workers tasks are in flight at any moment, and a
\* max_workers value outside 1..1000 ends the run with status 1 before
\* authentication, enumeration or any task.
C14_ConcurrencyBound ==
    /\ Cardinality(Running) <= args.max_workers
    /\ ~ValidWorkers(args.max_workers) =>
          /\ mainpc \in {"validate", "exit"}
          /\ mainpc = "exit" => exit_code = 1
          /\ projects = <<>>
          /\ Tasks = {}
          /\ \A p \in CloudProjects : policy[p] = policy0[p]

\* C14 witness: the pool is full and a submitted task waits for a free thread.
C14_Witness ==
    /\ ValidWorkers(args.max_workers)
    /\ Cardinality(Running) = args.max_workers
    /\ \E i \in Tasks : tpc[i] = "queued"

\* filter_projects has returned.
Filtered == lpc \in {"stats", "output"} \/ (lpc = "exit" /\ lexit = 0)

\* The project's identifier matches a pattern that was supplied.
Matches(opt, project) == opt # Absent /\ Search(opt[1], project.id)

\* The same for a pattern that is supplied and not the empty string.
MatchesNonEmpty(opt, project) == Truthy(opt) /\ Search(opt[1], project.id)

\* C15 as stated: once filter_projects has returned, every project whose
\* identifier matches the supplied exclude pattern is in the excluded result
\* and not in the kept result, whatever the include pattern.
C15_ExclusionWins ==
    Filtered =>
        \A k \in 1..Len(all_projects) :
            Matches(largs.exclude_pattern, all_projects[k]) =>
                /\ all_projects[k] \in Range(excluded_projects)
                /\ all_projects[k] \notin Range(filtered_projects)

\* C15 amended: the same for every supplied exclude pattern that is not the
\* empty string (an empty pattern is treated as not supplied).
C15_NonEmptyExclusionWins ==
    Filtered =>
        \A k \in 1..Len(all_projects) :
            MatchesNonEmpty(largs.exclude_pattern, all_projects[k]) =>
                /\ all_projects[k] \in Range(excluded_projects)
                /\ all_projects[k] \notin Range(filtered_projects)

\* C15 witness: a project that matches both patterns has been excluded.
C15_Witness ==
    /\ Filtered
    /\ \E k \in 1..Len(all_projects) :
          /\ MatchesNonEmpty(largs.exclude_pattern, all_projects[k])
          /\ MatchesNonEmpty(largs.include_pattern, all_projects[k])
          /\ all_projects[k] \in Range(excluded_projects)

\* The reference partition: a project is kept when it does not match the
\* exclude pattern and (no include pattern is set or it matches it).
RefKept(project) ==
    /\ ~Matches(largs.exclude_pattern, project)
    /\ largs.include_pattern = Absent \/ Matches(largs.include_pattern, project)

RefDropped(project) == ~RefKept(project)

\* The same partition with "set" read as "supplied and not empty".
RefKeptNonEmpty(project) ==
    /\ ~MatchesNonEmpty(largs.exclude_pattern, project)
    /\ ~Truthy(largs.include_pattern)
          \/ MatchesNonEmpty(largs.include_pattern, project)

RefDroppedNonEmpty(project) == ~RefKeptNonEmpty(project)

\* C16 as stated: once filter_projects has returned, kept is the subsequence
\* of the input that the reference partition keeps, excluded is the rest in
\* input order, the two are disjoint and cover the input once, and with
\* neither pattern set kept is the input and excluded is empty.
C16_ReferencePartition ==
    Filtered =>
        /\ filtered_projects = SelectSeq(all_projects, RefKept)
        /\ excluded_projects = SelectSeq(all_projects, RefDropped)
        /\ Range(filtered_projects) \cap Range(excluded_projects) = {}
        /\ Len(filtered_projects) + Len(excluded_projects) = Len(all_projects)
        /\ (largs.include_pattern = Absent /\ largs.exclude_pattern = Absent) =>
              filtered_projects = all_projects /\ excluded_projects = <<>>

\* C16 amended: the same with a pattern counting as set only when it is
\* supplied and not the empty string.
C16_NonEmptyReferencePartition ==
    Filtered =>
        /\ filtered_projects = SelectSeq(all_projects, RefKeptNonEmpty)
        /\ excluded_projects = SelectSeq(all_projects, RefDroppedNonEmpty)
        /\ Range(filtered_projects) \cap Range(excluded_projects) = {}
        /\ Len(filtered_projects) + Len(excluded_projects) = Len(all_projects)
        /\ (~Truthy(largs.include_pattern) /\ ~Truthy(largs.exclude_pattern)) =>
              filtered_projects = all_projects /\ excluded_projects = <<>>

\* C16 witness: with both patterns set, several projects were split into a
\* kept part and an excluded part.
C16_Witness ==
    /\ Filtered
    /\ Truthy(largs.include_pattern)
    /\ Truthy(largs.exclude_pattern)
    /\ Len(filtered_projects) >= 2
    /\ excluded_projects # <<>>

\* C17: the list read from the project file never holds an empty entry nor
\* an entry that comes from a comment line (a line whose text starts with #).
C17_NoCommentOrBlankEntry ==
    ~args.all_projects =>
        \A k \in 1..Len(projects) :
            /\ projects[k] # <<>>
            /\ Head(projects[k]) # "#"

\* Each role appears in at most one binding of pol.
RoleUnique(pol) ==
    \A j, k \in 1..Len(pol) : pol[j].role = pol[k].role => j = k

\* new is old with Member merged in for DEFAULT_ROLE and nothing else touched.
Merged(old, new) ==
    /\ RoleUnique(new)
    /\ IF \E k \in 1..Len(old) : old[k].role = DEFAULT_ROLE
       THEN /\ Len(new) = Len(old)
            /\ \A k \in 1..Len(old) :
                 IF old[k].role = DEFAULT_ROLE /\ Member \notin Range(old[k].members)
                 THEN /\ new[k].role = DEFAULT_ROLE
                      /\ Len(new[k].members) = Len(old[k].members) + 1
                      /\ new[k].members[Len(new[k].members)] = Member
                      /\ \A n \in 1..Len(old[k].members) :
                           new[k].members[n] = old[k].members[n]
                 ELSE new[k] = old[k]
       ELSE /\ Len(new) = Len(old) + 1
            /\ new[Len(new)] = [role |-> DEFAULT_ROLE, members |-> <<Member>>]
            /\ \A k \in 1..Len(old) : new[k] = old[k]

\* Task i's setIamPolicy call succeeds in this step.
Writes(i) == tpc[i] = "write" /\ tpc'[i] = "inc_success"

\* C18: every policy a task reads has each role in at most one binding, and
\* the policy a successful write stores is the one the task read with the
\* principal merged in: added to the role's binding if it was absent there,
\* or one new binding appended if the role had none; all else unchanged.
C18_MergeKeepsRoleUniqueness ==
    [][\A i \in Tasks :
          Writes(i) =>
              /\ RoleUnique(tpolicy[i])
              /\ Merged(tpolicy[i], policy'[projects[i]])
              /\ \A p \in CloudProjects \ {projects[i]} : policy'[p] = policy[p]]_vars

\* C18 witness: a task has written a policy in which the principal joined
\* the existing binding of the role.
C18_Witness ==
    \E i \in Tasks :
        /\ tpc[i] = "inc_success"
        /\ FirstBinding(tpolicy[i], DEFAULT_ROLE) # 0
        /\ ~HasRole(tpolicy[i], Member, DEFAULT_ROLE)
        /\ HasRole(policy[projects[i]], Member, DEFAULT_ROLE)
        /\ Len(policy[projects[i]]) = Len(tpolicy[i])

\* The check of task i has returned and did not report the principal as a
\* member (it returned False, or it failed and returned None).
CheckedNotMember(i, calls) ==
    /\ has_permission[i] \in {"False", "None"}
    /\ Len(calls) >= 1
    /\ calls[1] \in {"check", "check_err"}

\* C19: within a task the re-read comes right after a check that did not
\* report membership and returns the policy as it is at that moment; the
\* write comes right after that re-read and stores the re-read policy with
\* the principal merged in; policies change by such writes only; and a task
\* whose check found the principal a member issues no other call and ends
\* as already_granted.
C19_CheckRereadWrite ==
    [][/\ \A i \in Tasks :
            /\ (tpc[i] = "reread" /\ tpc'[i] = "write") =>
                  /\ CheckedNotMember(i, trace[i])
                  /\ Len(trace[i]) = 1
                  /\ tpolicy'[i] = policy[projects[i]]
            /\ (tpc[i] = "write" /\ trace'[i] # trace[i]) =>
                  /\ CheckedNotMember(i, trace[i])
                  /\ Len(trace[i]) = 2
                  /\ trace[i][2] = "read"
            /\ Writes(i) => Merged(tpolicy[i], policy'[projects[i]])
            /\ has_permission'[i] = "True" =>
                  /\ trace'[i] = <<"check">>
                  /\ result'[i] \in {"none", "already_granted"}
            /\ (tpc'[i] = "done" /\ has_permission'[i] = "True") =>
                  result'[i] = "already_granted"
       /\ policy' # policy => \E i \in Tasks : Writes(i)]_vars

\* C19 witness: one task has gone through check, re-read and write, and
\* another found the principal already a member and stopped after its check.
C19_Witness ==
    /\ \E i \in Tasks :
          /\ result[i] = "granted"
          /\ has_permission[i] = "False"
          /\ trace[i] = <<"check", "read", "write">>
    /\ \E j \in Tasks :
          /\ result[j] = "already_granted"
          /\ trace[j] = <<"check">>

\* Number of calls of the kinds in evs among calls.
Count(calls, evs) == Cardinality({k \in 1..Len(calls) : calls[k] \in evs})

\* C20: a task issues at most one check read, one re-read and one write;
\* after a failed grant call it issues no further call, and a result of
\* 'failed' never changes; main() submits one task per input entry.
C20_NoRetry ==
    [][/\ \A i \in Tasks :
            /\ Count(trace'[i], {"check", "check_err"}) <= 1
            /\ Count(trace'[i], {"read", "read_err"}) <= 1
            /\ Count(trace'[i], {"write", "write_err"}) <= 1
            /\ (Issued(i, {"read_err", "write_err"}) \/ result[i] = "failed") =>
                  trace'[i] = trace[i]
            /\ result[i] = "failed" => result'[i] = "failed"
            /\ tpc[i] = "done" => tpc'[i] = "done"
       /\ submitted' <= Len(projects')]_vars

\* C20 witness: a run has ended with a task whose write failed after one
\* check and one re-read, and that task stayed failed.
C20_Witness ==
    /\ mainpc = "exit"
    /\ \E i \in Tasks :
          /\ result[i] = "failed"
          /\ trace[i] = <<"check", "read", "write_err">>

\* The tasks of the input entries that name project p.
TasksOf(p) == {i \in Tasks : projects[i] = p}

\* Every binding of old is in new with at least the members it had.
Preserves(old, new) ==
    \A k \in 1..Len(old) :
        \E j \in 1..Len(new) :
            /\ new[j].role = old[k].role
            /\ Range(old[k].members) \subseteq Range(new[j].members)

\* C21: when a project is named by several input entries and all their
\* tasks have finished without an API error, whatever the interleaving, its
\* policy has one binding for the role with the principal in it once, and
\* every binding and member of the initial policy is still there.
C21_DuplicateInputRace ==
    \A p \in CloudProjects :
        ( /\ NormalMode
          /\ Cardinality(TasksOf(p)) >= 2
          /\ \A i \in TasksOf(p) : tpc[i] = "done" /\ Clean(i) ) =>
            /\ RoleBindings(policy[p]) = 1
            /\ MemberCount(policy[p]) = 1
            /\ Preserves(policy0[p], policy[p])
            /\ \A i \in TasksOf(p) : result[i] \in {"granted", "already_granted"}

\* C21 witness: two tasks of one project ran at once, neither saw the
\* principal in its check, and the second wrote after re-reading the policy
\* the first had already written.
C21_Witness ==
    \E i, j \in Tasks :
        /\ i # j
        /\ projects[i] = projects[j]
        /\ args.max_workers >= 2
        /\ trace[i] = <<"check", "read", "write">>
        /\ trace[j] = <<"check", "read", "write">>
        /\ has_permission[i] = "False"
        /\ has_permission[j] = "False"
        /\ tpc[i] = "done"
        /\ tpc[j] = "done"
        /\ MemberCount(tpolicy[j]) = 1
        /\ RoleBindings(policy0[projects[i]]) = 1

\* The summary is about to be printed / has been printed and main() returned.
SummaryDue == mainpc = "summary"
SummaryProduced == mainpc = "exit" /\ submitted > 0 /\ exit_code = 0

\* No worker task is left to run and no lock is held.
Quiescent ==
    /\ \A i \in Tasks : tpc[i] = "done"
    /\ counter_lock = 0
    /\ errors_lock = 0

\* C22: the summary is produced only when every task has finished; from
\* then on no counter and no error-log entry changes; grant-access-errors.log
\* is written by the summary step only, with the whole error log, and it has
\* been written iff the error log is non-empty.
C22_SummaryAtQuiescence ==
    [][/\ (SummaryDue \/ SummaryProduced)' => Quiescent'
       /\ (SummaryDue \/ SummaryProduced) =>
             /\ success_count' = success_count
             /\ already_granted_count' = already_granted_count
             /\ failure_count' = failure_count
             /\ errors_log' = errors_log
       /\ log_file' # log_file =>
             /\ SummaryDue
             /\ log_file'.written
             /\ log_file'.lines = errors_log
       /\ ~SummaryProduced' => ~log_file'.written
       /\ SummaryProduced' => (log_file'.written <=> errors_log' # <<>>)]_vars

\* C22 witness: a run with two workers has ended after a failure, with the
\* failure counted and the error log written to the file.
C22_Witness ==
    /\ SummaryProduced
    /\ args.max_workers >= 2
    /\ Len(projects) >= 2
    /\ failure_count >= 1
    /\ log_file.written
    /\ log_file.lines = errors_log

====
